---- MODULE Spec2Model ----
(***************************************************************************)
(* Model of the rust-utils-lib crate: the mail pipeline (Mailer::send),    *)
(* the key-value configuration loader (AppConfig::init) and the RSA key    *)
(* pair wrapper (RsaKeys).                                                 *)
(*                                                                         *)
(* Text is a sequence of one-character strings, so that substring          *)
(* replacement, splitting and concatenation are computed, not assumed.     *)
(***************************************************************************)
EXTENDS Integers, Sequences, FiniteSets, TLC

VARIABLES
    \* ---- Mailer (src/src/mailer.rs) ----
    config,          \* the Config held by the Mailer
    fs,              \* the files present on disk: path -> text
    args,            \* the arguments of the send call in progress
    pc,              \* position of the send call
    part,            \* the MultiPart being assembled: a sequence of SingleParts
    idx,             \* index of the next attachment to package
    reads,           \* paths this call has handed to fs::read / read_to_string
    mail,            \* the built Message, or NoMail
    transportBuilt,  \* the transport closure has returned a transport
    submissions,     \* how many times this call invoked Transport::send
    res,             \* the server's Response to the submission, or NoResponse
    result,          \* what send returned
    \* ---- template rendering alone ----
    template_text,   \* the template handed to the renderer
    message,         \* the message text handed to the renderer
    body,            \* the rendered body, or NotRendered
    \* ---- AppConfig (src/src/envars.rs) ----
    file_text,       \* the text of the configuration file
    values,          \* AppConfig.values, or NotLoaded
    \* ---- RsaKeys (src/src/rsakeys.rs) ----
    keys,            \* the RsaKeys: private and public key
    data,            \* the text handed to an encrypt method
    encrypted,       \* what the encrypt method returned, or NotCalled
    decrypted,       \* what the decrypt method returned, or NotCalled
    ops              \* the methods called so far, in order

mailerVars == <<config, fs, args, pc, part, idx, reads, mail, transportBuilt,
                submissions, res, result>>
renderVars == <<template_text, message, body>>
envarsVars == <<file_text, values>>
rsaVars == <<keys, data, encrypted, decrypted, ops>>
vars == <<mailerVars, renderVars, envarsVars, rsaVars>>

(***************************************************************************)
(* Text helpers                                                            *)
(***************************************************************************)

\* s[from..], the tail of s starting at index from (1-based)
Drop(s, n) == SubSeq(s, n + 1, Len(s))

\* s starts with pat at index i
MatchesAt(s, pat, i) ==
    /\ i >= 1
    /\ i + Len(pat) - 1 <= Len(s)
    /\ SubSeq(s, i, i + Len(pat) - 1) = pat

\* str::contains
Contains(s, pat) == \E i \in 1..(Len(s) + 1) : MatchesAt(s, pat, i)

\* str::replace(pat, rep) for a non-empty pat: the matches are found left to
\* right, each search resuming after the end of the previous match
RECURSIVE Replace(_, _, _)
Replace(s, pat, rep) ==
    IF s = <<>> THEN <<>>
    ELSE IF MatchesAt(s, pat, 1)
         THEN rep \o Replace(Drop(s, Len(pat)), pat, rep)
         ELSE <<Head(s)>> \o Replace(Tail(s), pat, rep)

\* The "{lang}" token of template_name_format
LangToken == <<"{", "l", "a", "n", "g", "}">>

\* The "{{contents}}" token of a template
ContentsToken == <<"{", "{", "c", "o", "n", "t", "e", "n", "t", "s", "}", "}">>

Hello == <<"h", "e", "l", "l", "o">>

(***************************************************************************)
(* Mailer: values                                                          *)
(***************************************************************************)

\* Option<T>: None is the empty sequence, Some(x) the one-element sequence
None == <<>>
Some(x) == <<x>>

En == <<"e", "n">>
Ro == <<"r", "o">>
Fr == <<"f", "r">>

\* MAIL:LANGS of the configuration
ConfigLanguages == <<En, Ro, Fr>>

\* Values of template_name_format: "m_{lang}" and "{lang}-{lang}"
NameFormats == { <<"m", "_">> \o LangToken, LangToken \o <<"-">> \o LangToken }

TemplateDir == <<"t">>

TextPlain == <<"t", "e", "x", "t", "/", "p", "l", "a", "i", "n">>
OctetStream == <<"a", "p", "p", "/", "b", "i", "n">>
NotAMimeType == <<"n", "o", "t", "-", "a", "-", "m", "i", "m", "e", "-", "t", "y", "p", "e">>

\* MailAttachment { path, name, mime }
AttA == [path |-> <<"a">>, name |-> <<"A">>, mime |-> TextPlain]
AttB == [path |-> <<"b">>, name |-> <<"B">>, mime |-> OctetStream]
AttC == [path |-> <<"c">>, name |-> <<"C">>, mime |-> NotAMimeType]
AttachmentPool == {AttA, AttB, AttC}

\* Longest attachment list a call is given
MaxAttachments == 2

\* Most lines in a server response
MaxLines == 2

\* Lines a server response is made of (a line holds no newline)
ResponseLines == { <<>>, <<"x">>, <<"y", "z">> }

SeqsUpTo(S, n) == UNION { [1..k -> S] : k \in 0..n }

\* lettre::transport::smtp::response::Severity
Severities == {"PositiveCompletion", "PositiveIntermediate",
               "TransientNegativeCompletion", "PermanentNegativeCompletion"}

NoResponse == [severity |-> "None", message |-> <<>>]
NoMail == <<>>

\* Result<(), ErrorReport>
NoResult == [tag |-> "None", error |-> "", msg |-> <<>>]
Ok == [tag |-> "Ok", error |-> "", msg |-> <<>>]
Err(kind, text) == [tag |-> "Err", error |-> kind, msg |-> text]

\* ErrorReport::MailSentResponse { msg: msg.to_string() }
error_mail_sent_response(msg) == Err("MailSentResponse", msg)

(***************************************************************************)
(* Mailer: the closures of send                                            *)
(***************************************************************************)

\* Path::new(base).join(p): an absolute p replaces base
PathJoin(base, p) ==
    IF p # <<>> /\ Head(p) = "/" THEN p
    ELSE IF base = <<>> \/ base[Len(base)] = "/" THEN base \o p
    ELSE base \o <<"/">> \o p

\* ResolveLang falling back to the first supported language instead of the default
ResolveLangFirstSupported(language, default_lang) ==
    IF language # None THEN language[1] ELSE ConfigLanguages[1]

\* html_body: match language { Some(val) => val, None => default_lang }
ResolveLang(language, default_lang) ==
    IF language # None THEN language[1] ELSE default_lang

\* html_body: the path handed to fs::read_to_string
TemplatePath(language, default_lang, template_dir_path, template_name_format) ==
    PathJoin(template_dir_path,
             Replace(template_name_format, LangToken,
                     ResolveLang(language, default_lang)))

\* RenderBody replacing the first occurrence of the token only
RenderBodyFirstOnly(text, msg) ==
    IF \E i \in 1..Len(text) : MatchesAt(text, ContentsToken, i)
    THEN LET i == CHOOSE k \in 1..Len(text) :
                      /\ MatchesAt(text, ContentsToken, k)
                      /\ \A j \in 1..(k - 1) : ~MatchesAt(text, ContentsToken, j)
         IN  SubSeq(text, 1, i - 1) \o msg \o Drop(text, i + Len(ContentsToken) - 1)
    ELSE text

\* html_body: template_text.replace("{{contents}}", message)
RenderBody(text, msg) == Replace(text, ContentsToken, msg)

\* SinglePart::html(body)
HtmlPart(text) == [kind |-> "html", name |-> <<>>, mime |-> <<"h">>, content |-> text]

\* attachment.mime.parse(): a type and a subtype, both non-empty, around one "/"
MimeParses(mime) ==
    \E i \in 2..(Len(mime) - 1) :
        /\ mime[i] = "/"
        /\ \A j \in 1..Len(mime) : j # i => mime[j] \notin {"/", " "}

\* Attachment::new(name).body(bytes, content_type)
AttachmentSinglePart(attachment, bytes) ==
    [kind |-> "attachment", name |-> attachment.name, mime |-> attachment.mime,
     content |-> bytes]

\* Singlepart putting the new part right after the body instead of last
SinglepartAfterBody(multi, p) ==
    IF multi = <<>> THEN <<p>> ELSE <<Head(multi), p>> \o Tail(multi)

\* part.singlepart(p)
Singlepart(multi, p) == Append(multi, p)

\* attachments: Option<Vec<MailAttachment>>, as the list the loop walks
AttachmentList(attachments) == IF attachments = None THEN <<>> ELSE attachments[1]

\* cc_addrs: Option<Vec<Mailbox>>, as the list the loop walks
CcList(cc_addrs) == IF cc_addrs = None THEN <<>> ELSE cc_addrs[1]

\* FoldLines with the newline between the lines only, none after the last
RECURSIVE FoldLinesJoined(_, _)
FoldLinesJoined(t, lines) ==
    IF lines = <<>> THEN t
    ELSE IF Len(lines) = 1 THEN t \o Head(lines)
    ELSE FoldLinesJoined(t \o Head(lines) \o <<"\n">>, Tail(lines))

\* res.message().fold(String::new(), |t, s| t + s + "\n")
RECURSIVE FoldLines(_, _)
FoldLines(t, lines) ==
    IF lines = <<>> THEN t
    ELSE FoldLines(t \o Head(lines) \o <<"\n">>, Tail(lines))

\* The text of the template file of language lang
TemplateFile(lang) == <<"<">> \o lang \o <<">">> \o ContentsToken \o <<"!">>

\* The bytes of the attachment file at path p
AttachmentFile(p) == <<"#">> \o p

(***************************************************************************)
(* Mailer: send, step by step                                              *)
(***************************************************************************)

Recipients == {<<>>, <<"r1", "r2">>}

SendArgs ==
    [to_addrs : Recipients,
     cc_addrs : {None, Some(<<"r3">>)},
     subject : {<<"s">>},
     message : {Hello},
     language : {None, Some(En), Some(Ro)},
     attachments : {None} \cup { Some(l) : l \in SeqsUpTo(AttachmentPool, MaxAttachments) }]

\* Mailer::init(config), on a disk holding some of the templates and attachments
MailerInit ==
    /\ \E dl \in {En, Ro}, fmt \in NameFormats :
         config = [default_language |-> dl,
                   languages |-> ConfigLanguages,
                   template_dir_path |-> TemplateDir,
                   template_name_format |-> fmt]
    /\ \E langs \in SUBSET {En, Ro}, atts \in {{}, {AttA, AttC}} :
         LET tp(l) == TemplatePath(Some(l), l, config.template_dir_path,
                                   config.template_name_format)
             paths == { tp(l) : l \in langs } \cup { a.path : a \in atts \cup {AttB} }
         IN  fs = [p \in paths |->
                     IF \E l \in langs : tp(l) = p
                     THEN TemplateFile(CHOOSE l \in langs : tp(l) = p)
                     ELSE AttachmentFile(p)]
    /\ args = [to_addrs |-> <<>>, cc_addrs |-> None, subject |-> <<>>,
               message |-> <<>>, language |-> None, attachments |-> None]
    /\ pc = "idle"
    /\ part = <<>>
    /\ idx = 1
    /\ reads = <<>>
    /\ mail = NoMail
    /\ transportBuilt = FALSE
    /\ submissions = 0
    /\ res = NoResponse
    /\ result = NoResult

\* A call of send: Message::builder().from(..).reply_to(..).subject(..), then
\* the to and cc loops
SendBegin ==
    /\ pc = "idle"
    /\ \E a \in SendArgs : args' = a
    /\ pc' = "html_body"
    /\ part' = <<>>
    /\ idx' = 1
    /\ reads' = <<>>
    /\ mail' = NoMail
    /\ transportBuilt' = FALSE
    /\ submissions' = 0
    /\ res' = NoResponse
    /\ result' = NoResult
    /\ UNCHANGED <<config, fs>>
    /\ UNCHANGED <<renderVars, envarsVars, rsaVars>>

\* HtmlBody that reads the default language's template when the resolved one is absent
HtmlBodyFallback ==
    /\ pc = "html_body"
    /\ LET path == TemplatePath(args.language, config.default_language,
                                config.template_dir_path, config.template_name_format)
           dflt == TemplatePath(None, config.default_language,
                                config.template_dir_path, config.template_name_format)
       IN  IF path \in DOMAIN fs
           THEN /\ reads' = Append(reads, path)
                /\ part' = Singlepart(<<>>, HtmlPart(RenderBody(fs[path], args.message)))
                /\ pc' = "attachments"
                /\ UNCHANGED result
           ELSE IF dflt \in DOMAIN fs
           THEN /\ reads' = reads \o <<path, dflt>>
                /\ part' = Singlepart(<<>>, HtmlPart(RenderBody(fs[dflt], args.message)))
                /\ pc' = "attachments"
                /\ UNCHANGED result
           ELSE /\ reads' = reads \o <<path, dflt>>
                /\ result' = Err("Io", <<>>)
                /\ pc' = "done"
                /\ UNCHANGED part
    /\ UNCHANGED <<config, fs, args, idx, mail, transportBuilt, submissions, res>>
    /\ UNCHANGED <<renderVars, envarsVars, rsaVars>>

\* MultiPart::mixed().singlepart(html_body(..)?)
HtmlBody ==
    /\ pc = "html_body"
    /\ LET path == TemplatePath(args.language, config.default_language,
                                config.template_dir_path, config.template_name_format)
       IN  /\ reads' = Append(reads, path)
           /\ IF path \in DOMAIN fs
              THEN /\ part' = Singlepart(<<>>, HtmlPart(RenderBody(fs[path], args.message)))
                   /\ pc' = "attachments"
                   /\ UNCHANGED result
              ELSE /\ result' = Err("Io", <<>>)
                   /\ pc' = "done"
                   /\ UNCHANGED part
    /\ UNCHANGED <<config, fs, args, idx, mail, transportBuilt, submissions, res>>
    /\ UNCHANGED <<renderVars, envarsVars, rsaVars>>

\* AttachementPart that takes the declared MIME type without parsing it
AttachementPartAnyMime ==
    /\ pc = "attachments"
    /\ idx <= Len(AttachmentList(args.attachments))
    /\ LET attch == AttachmentList(args.attachments)[idx]
       IN  /\ reads' = Append(reads, attch.path)
           /\ IF attch.path \notin DOMAIN fs
              THEN /\ result' = Err("Io", <<>>)
                   /\ pc' = "done"
                   /\ UNCHANGED <<part, idx>>
              ELSE /\ part' = Singlepart(part, AttachmentSinglePart(attch, fs[attch.path]))
                   /\ idx' = idx + 1
                   /\ UNCHANGED <<pc, result>>
    /\ UNCHANGED <<config, fs, args, mail, transportBuilt, submissions, res>>
    /\ UNCHANGED <<renderVars, envarsVars, rsaVars>>

\* One turn of: for attch in attchs { part = part.singlepart(attachement_part(&attch)?) }
\* The file is read before the MIME type is parsed.
AttachementPart ==
    /\ pc = "attachments"
    /\ idx <= Len(AttachmentList(args.attachments))
    /\ LET attch == AttachmentList(args.attachments)[idx]
       IN  /\ reads' = Append(reads, attch.path)
           /\ IF attch.path \notin DOMAIN fs
              THEN /\ result' = Err("Io", <<>>)
                   /\ pc' = "done"
                   /\ UNCHANGED <<part, idx>>
              ELSE IF ~MimeParses(attch.mime)
              THEN /\ result' = Err("MailHeaderContentType", <<>>)
                   /\ pc' = "done"
                   /\ UNCHANGED <<part, idx>>
              ELSE /\ part' = Singlepart(part, AttachmentSinglePart(attch, fs[attch.path]))
                   /\ idx' = idx + 1
                   /\ UNCHANGED <<pc, result>>
    /\ UNCHANGED <<config, fs, args, mail, transportBuilt, submissions, res>>
    /\ UNCHANGED <<renderVars, envarsVars, rsaVars>>

\* builder.multipart(part)?: the envelope needs at least one recipient
BuilderMultipart ==
    /\ pc = "attachments"
    /\ idx > Len(AttachmentList(args.attachments))
    /\ IF args.to_addrs = <<>> /\ CcList(args.cc_addrs) = <<>>
       THEN /\ result' = Err("MailContent", <<>>)
            /\ pc' = "done"
            /\ UNCHANGED mail
       ELSE /\ mail' = <<[to |-> args.to_addrs, cc |-> CcList(args.cc_addrs),
                          subject |-> args.subject, multipart |-> part]>>
            /\ pc' = "transport"
            /\ UNCHANGED result
    /\ UNCHANGED <<config, fs, args, part, idx, reads, transportBuilt, submissions, res>>
    /\ UNCHANGED <<renderVars, envarsVars, rsaVars>>

\* transport(server, port, user_name, password)?: starttls_relay may refuse the server
TransportBuild ==
    /\ pc = "transport"
    /\ \/ /\ transportBuilt' = TRUE
          /\ pc' = "send"
          /\ UNCHANGED result
       \/ /\ result' = Err("MailTransportSmtp", <<>>)
          /\ pc' = "done"
          /\ UNCHANGED transportBuilt
    /\ UNCHANGED <<config, fs, args, part, idx, reads, mail, submissions, res>>
    /\ UNCHANGED <<renderVars, envarsVars, rsaVars>>

\* TransportSend that submits again after a transport error
TransportSendRetry ==
    /\ pc = "send"
    /\ submissions < 2
    /\ submissions' = submissions + 1
    /\ \/ \E sev \in Severities, lines \in SeqsUpTo(ResponseLines, MaxLines) :
            /\ res' = [severity |-> sev, message |-> lines]
            /\ pc' = "evaluate"
            /\ UNCHANGED result
       \/ /\ IF submissions = 0
             THEN UNCHANGED <<pc, result>>
             ELSE /\ result' = Err("MailTransportSmtp", <<>>)
                  /\ pc' = "done"
          /\ UNCHANGED res
    /\ UNCHANGED <<config, fs, args, part, idx, reads, mail, transportBuilt>>
    /\ UNCHANGED <<renderVars, envarsVars, rsaVars>>

\* .send(&mail)?: the submission fails in the transport, or the server replies
TransportSend ==
    /\ pc = "send"
    /\ submissions' = submissions + 1
    /\ \/ \E sev \in Severities, lines \in SeqsUpTo(ResponseLines, MaxLines) :
            /\ res' = [severity |-> sev, message |-> lines]
            /\ pc' = "evaluate"
            /\ UNCHANGED result
       \/ /\ result' = Err("MailTransportSmtp", <<>>)
          /\ pc' = "done"
          /\ UNCHANGED res
    /\ UNCHANGED <<config, fs, args, part, idx, reads, mail, transportBuilt>>
    /\ UNCHANGED <<renderVars, envarsVars, rsaVars>>

\* Evaluate that takes every positive reply, intermediate ones too, as success
EvaluateAnyPositive ==
    /\ pc = "evaluate"
    /\ result' = IF res.severity \in {"PositiveCompletion", "PositiveIntermediate"}
                 THEN Ok
                 ELSE error_mail_sent_response(FoldLines(<<>>, res.message))
    /\ pc' = "done"
    /\ UNCHANGED <<config, fs, args, part, idx, reads, mail, transportBuilt,
                   submissions, res>>
    /\ UNCHANGED <<renderVars, envarsVars, rsaVars>>

\* match res.code().severity { PositiveCompletion => Ok(()), _ => Err(..) }
Evaluate ==
    /\ pc = "evaluate"
    /\ result' = IF res.severity = "PositiveCompletion"
                 THEN Ok
                 ELSE error_mail_sent_response(FoldLines(<<>>, res.message))
    /\ pc' = "done"
    /\ UNCHANGED <<config, fs, args, part, idx, reads, mail, transportBuilt,
                   submissions, res>>
    /\ UNCHANGED <<renderVars, envarsVars, rsaVars>>

\* send has returned result to its caller; nothing of the call is kept
Return ==
    /\ pc = "done"
    /\ pc' = "idle"
    /\ args' = [to_addrs |-> <<>>, cc_addrs |-> None, subject |-> <<>>,
                message |-> <<>>, language |-> None, attachments |-> None]
    /\ part' = <<>>
    /\ idx' = 1
    /\ reads' = <<>>
    /\ mail' = NoMail
    /\ transportBuilt' = FALSE
    /\ submissions' = 0
    /\ res' = NoResponse
    /\ result' = NoResult
    /\ UNCHANGED <<config, fs>>
    /\ UNCHANGED <<renderVars, envarsVars, rsaVars>>

(***************************************************************************)
(* Template rendering on its own: html_body's replace of "{{contents}}"    *)
(***************************************************************************)

\* Fragments templates are put together from: the token, pieces of it, braces,
\* plain text and the text "hello" itself
TemplatePieces ==
    { ContentsToken, <<"{">>, <<"}">>, <<"a">>, Hello,
      <<"{", "{", "c", "o", "n", "t">>, <<"e", "n", "t", "s", "}", "}">> }

\* Most fragments in a template
MaxPieces == 3

RECURSIVE Flatten(_)
Flatten(ss) == IF ss = <<>> THEN <<>> ELSE Head(ss) \o Flatten(Tail(ss))

Templates == { Flatten(ps) : ps \in SeqsUpTo(TemplatePieces, MaxPieces) }

\* Message texts: "hello", and a text that is itself a piece of the token
Messages == { Hello, <<"{">> }

NotRendered == <<>>

RenderIdle ==
    /\ template_text = <<>>
    /\ message = <<>>
    /\ body = NotRendered

RenderInit ==
    /\ template_text \in Templates
    /\ message \in Messages
    /\ body = NotRendered

(***************************************************************************)
(* AppConfig (src/src/envars.rs)                                           *)
(***************************************************************************)

\* CONFIG_FILE_DELIMITER
Delimiter == "="

\* AppConfig::COMMENT_START
COMMENT_START == "#"

\* Characters a configuration file is written with
FileChars == { "k", "v", Delimiter, COMMENT_START, " ", "\n" }

\* Longest configuration file, in characters
MaxFileLen == 4

NotLoaded == <<>>

EnvarsIdle ==
    /\ file_text = <<>>
    /\ values = NotLoaded

EnvarsInit ==
    /\ file_text \in SeqsUpTo(FileChars, MaxFileLen)
    /\ values = NotLoaded

\* str::lines(): the text cut at each "\n"; a final newline opens no last line
RECURSIVE LinesFrom(_, _)
LinesFrom(text, cur) ==
    IF text = <<>> THEN (IF cur = <<>> THEN <<>> ELSE <<cur>>)
    ELSE IF Head(text) = "\n" THEN <<cur>> \o LinesFrom(Tail(text), <<>>)
    ELSE LinesFrom(Tail(text), Append(cur, Head(text)))

Lines(text) == LinesFrom(text, <<>>)

\* str::trim(): white space taken off both ends
RECURSIVE TrimStart(_)
TrimStart(line) ==
    IF line # <<>> /\ Head(line) = " " THEN TrimStart(Tail(line)) ELSE line

RECURSIVE TrimEnd(_)
TrimEnd(line) ==
    IF line # <<>> /\ line[Len(line)] = " "
    THEN TrimEnd(SubSeq(line, 1, Len(line) - 1))
    ELSE line

Trim(line) == TrimEnd(TrimStart(line))

\* str::starts_with(char)
StartsWith(line, c) == line # <<>> /\ Head(line) = c

\* .filter(|line| !(line.is_empty() && line.starts_with(Self::COMMENT_START)))
KeepLine(line) == ~(line = <<>> /\ StartsWith(line, COMMENT_START))

\* str::split_once(delimiter): None, or the text before and after the first delimiter
SplitOnce(line, delimiter) ==
    IF \E i \in 1..Len(line) : line[i] = delimiter
    THEN LET i == CHOOSE k \in 1..Len(line) :
                      /\ line[k] = delimiter
                      /\ \A j \in 1..(k - 1) : line[j] # delimiter
         IN  Some(<<SubSeq(line, 1, i - 1), Drop(line, i)>>)
    ELSE None

\* .collect() into a HashMap: a later pair replaces an earlier one with its key
RECURSIVE Collect(_, _)
Collect(map, pairs) ==
    IF pairs = <<>> THEN map
    ELSE LET k == Head(pairs)[1]
             v == Head(pairs)[2]
         IN  Collect([x \in DOMAIN map \cup {k} |-> IF x = k THEN v ELSE map[x]],
                     Tail(pairs))

\* The pairs of .lines().map(trim).filter(..).filter_map(split_once), in line order
RECURSIVE Pairs(_, _)
Pairs(lines, delimiter) ==
    IF lines = <<>> THEN <<>>
    ELSE LET line == Trim(Head(lines))
             rest == Pairs(Tail(lines), delimiter)
         IN  IF KeepLine(line) /\ SplitOnce(line, delimiter) # None
             THEN <<SplitOnce(line, delimiter)[1]>> \o rest
             ELSE rest

\* The empty HashMap
EmptyMap == [x \in {} |-> <<>>]

\* AppConfig::init(file_path, delimiter) on a readable file
AppConfigInit ==
    /\ values = NotLoaded
    /\ values' = Some(Collect(EmptyMap, Pairs(Lines(file_text), Delimiter)))
    /\ UNCHANGED file_text
    /\ UNCHANGED <<mailerVars, renderVars, rsaVars>>

(***************************************************************************)
(* RsaKeys (src/src/rsakeys.rs)                                            *)
(*                                                                         *)
(* RSA is computed on moduli below 2^30, four bytes long, so that every    *)
(* product stays in range; PKCS #1 v1.5 padding keeps its layout           *)
(* 00 || BT || PS || 00 || M, with the shortest padding string PS scaled   *)
(* from eight bytes to MinPaddingLen.                                      *)
(***************************************************************************)

\* (a * b) mod n by doubling, every intermediate value below 2 * n
RECURSIVE ModMul(_, _, _)
ModMul(a, b, n) ==
    IF b = 0 THEN 0
    ELSE (((2 * ModMul(a, b \div 2, n)) % n) + (IF b % 2 = 1 THEN a ELSE 0)) % n

\* (b ^ e) mod n by squaring; the one-element sets name the half power h and
\* its square sq, each computed once
RECURSIVE ModExp(_, _, _)
ModExp(b, e, n) ==
    IF e = 0 THEN 1
    ELSE CHOOSE r \in { IF e % 2 = 1 THEN ModMul(b % n, sq, n) ELSE sq :
                        sq \in { ModMul(h, h, n) : h \in {ModExp(b, e \div 2, n)} } } : TRUE

\* Two key pairs: modulus n = p * q, public exponent e, private exponent d
KeyPairOne == [n |-> 20011 * 22961, e |-> 6107, d |-> 7523]
KeyPairTwo == [n |-> 20071 * 25471, e |-> 1759, d |-> 3229]

\* Rsa<Private> and Rsa<Public> as read from the PEM files
PrivateKeyOf(pair) == [n |-> pair.n, e |-> pair.e, d |-> pair.d]
PublicKeyOf(pair) == [n |-> pair.n, e |-> pair.e]

\* Rsa::size(): the modulus length in bytes
RECURSIVE ByteLen(_)
ByteLen(x) == IF x = 0 THEN 0 ELSE 1 + ByteLen(x \div 256)

Size(key) == ByteLen(key.n)

\* Big-endian bytes of x, k of them, and back
RECURSIVE ToBytes(_, _)
ToBytes(x, k) == IF k = 0 THEN <<>> ELSE Append(ToBytes(x \div 256, k - 1), x % 256)

RECURSIVE FromBytes(_)
FromBytes(bs) ==
    IF bs = <<>> THEN 0 ELSE FromBytes(SubSeq(bs, 1, Len(bs) - 1)) * 256 + bs[Len(bs)]

\* vec![0; n]
Zeros(n) == [i \in 1..n |-> 0]

\* What a library call gives back: Ok with the bytes written and the buffer, or Err
LibOk(count, buffer) == [tag |-> "Ok", bytes |-> count, buf |-> buffer]
LibErr == [tag |-> "Err", bytes |-> 0, buf |-> <<>>]

\* Shortest padding string of a block (eight bytes in PKCS #1 v1.5)
MinPaddingLen == 0

\* The bytes a PKCS #1 block spends besides the message: 00, BT, PS and 00
PaddingFrame == 3 + MinPaddingLen

\* The length of the padding string that fills a block of k bytes around m
PaddingLen(k, m) == k - 3 - Len(m)

\* EM = 00 || BT || PS || 00 || M
Pkcs1Block(bt, ps, m) == <<0, bt>> \o ps \o <<0>> \o m

\* The message of a block of type bt, or no message when the block is malformed:
\* a type 1 padding string is all FF, a type 2 padding string has no zero byte
Pkcs1Unpad(bt, em) ==
    IF /\ Len(em) >= PaddingFrame
       /\ em[1] = 0
       /\ em[2] = bt
       /\ \E i \in 3..Len(em) : em[i] = 0
    THEN LET z == CHOOSE i \in 3..Len(em) :
                      em[i] = 0 /\ \A j \in 3..(i - 1) : em[j] # 0
         IN  IF \/ z - 3 < MinPaddingLen
                \/ bt = 1 /\ \E j \in 3..(z - 1) : em[j] # 255
             THEN None
             ELSE Some(Drop(em, z))
    ELSE None

\* Rsa::public_encrypt(from, to, Padding::PKCS1), with padding string ps
public_encrypt(key, from, ps, to) ==
    IF Len(from) > Size(key) - PaddingFrame \/ Len(to) < Size(key)
    THEN LibErr
    ELSE LET em == Pkcs1Block(2, ps, from)
             c == ModExp(FromBytes(em), key.e, key.n)
         IN  LibOk(Size(key), ToBytes(c, Size(key)) \o Drop(to, Size(key)))

\* Rsa::private_encrypt(from, to, Padding::PKCS1)
private_encrypt(key, from, to) ==
    IF Len(from) > Size(key) - PaddingFrame \/ Len(to) < Size(key)
    THEN LibErr
    ELSE LET ps == [i \in 1..PaddingLen(Size(key), from) |-> 255]
             em == Pkcs1Block(1, ps, from)
             c == ModExp(FromBytes(em), key.d, key.n)
         IN  LibOk(Size(key), ToBytes(c, Size(key)) \o Drop(to, Size(key)))

\* The decryption of block c with exponent x, unpadded as type bt, into buffer to
RsaDecrypt(n, x, bt, from, to) ==
    IF Len(from) # ByteLen(n) \/ FromBytes(from) >= n
    THEN LibErr
    ELSE LET em == ToBytes(ModExp(FromBytes(from), x, n), ByteLen(n))
             m == Pkcs1Unpad(bt, em)
         IN  IF m = None \/ Len(m[1]) > Len(to)
             THEN LibErr
             ELSE LibOk(Len(m[1]), m[1] \o Drop(to, Len(m[1])))

\* Rsa::private_decrypt(from, to, Padding::PKCS1)
private_decrypt(key, from, to) == RsaDecrypt(key.n, key.d, 2, from, to)

\* Rsa::public_decrypt(from, to, Padding::PKCS1)
public_decrypt(key, from, to) == RsaDecrypt(key.n, key.e, 1, from, to)

\* The alphabet of BASE64URL_NOPAD
Base64UrlAlphabet ==
    <<"A", "B", "C", "D", "E", "F", "G", "H", "I", "J", "K", "L", "M",
      "N", "O", "P", "Q", "R", "S", "T", "U", "V", "W", "X", "Y", "Z",
      "a", "b", "c", "d", "e", "f", "g", "h", "i", "j", "k", "l", "m",
      "n", "o", "p", "q", "r", "s", "t", "u", "v", "w", "x", "y", "z",
      "0", "1", "2", "3", "4", "5", "6", "7", "8", "9", "-", "_">>

Symbol(v) == Base64UrlAlphabet[v + 1]

\* BASE64URL_NOPAD.encode: three bytes give four symbols; one or two bytes left
\* over give two or three, with no padding character
RECURSIVE Base64UrlEncode(_)
Base64UrlEncode(bs) ==
    IF bs = <<>> THEN <<>>
    ELSE IF Len(bs) = 1
    THEN <<Symbol(bs[1] \div 4), Symbol((bs[1] % 4) * 16)>>
    ELSE IF Len(bs) = 2
    THEN <<Symbol(bs[1] \div 4), Symbol((bs[1] % 4) * 16 + (bs[2] \div 16)),
           Symbol((bs[2] % 16) * 4)>>
    ELSE <<Symbol(bs[1] \div 4), Symbol((bs[1] % 4) * 16 + (bs[2] \div 16)),
           Symbol((bs[2] % 16) * 4 + (bs[3] \div 64)), Symbol(bs[3] % 64)>>
         \o Base64UrlEncode(Drop(bs, 3))

IsSymbol(c) == \E v \in 0..63 : Symbol(v) = c

ValueOfSymbol(c) == CHOOSE v \in 0..63 : Symbol(v) = c

\* The bytes of well-formed symbols cs
RECURSIVE Base64UrlBytes(_)
Base64UrlBytes(cs) ==
    IF Len(cs) < 2 THEN <<>>
    ELSE LET v(i) == ValueOfSymbol(cs[i])
         IN  IF Len(cs) = 2 THEN <<v(1) * 4 + (v(2) \div 16)>>
             ELSE IF Len(cs) = 3
             THEN <<v(1) * 4 + (v(2) \div 16), (v(2) % 16) * 16 + (v(3) \div 4)>>
             ELSE <<v(1) * 4 + (v(2) \div 16), (v(2) % 16) * 16 + (v(3) \div 4),
                    (v(3) % 4) * 64 + v(4)>> \o Base64UrlBytes(Drop(cs, 4))

\* BASE64URL_NOPAD.decode: None for a symbol outside the alphabet, a length of
\* 1 mod 4, or non-zero bits after the last byte
Base64UrlDecode(cs) ==
    IF \/ \E i \in 1..Len(cs) : ~IsSymbol(cs[i])
       \/ Len(cs) % 4 = 1
       \/ Len(cs) % 4 = 2 /\ ValueOfSymbol(cs[Len(cs)]) % 16 # 0
       \/ Len(cs) % 4 = 3 /\ ValueOfSymbol(cs[Len(cs)]) % 4 # 0
    THEN None
    ELSE Some(Base64UrlBytes(cs))

\* String::as_bytes: the UTF-8 bytes of a text of code points below 0x800
RECURSIVE AsBytes(_)
AsBytes(text) ==
    IF text = <<>> THEN <<>>
    ELSE (IF Head(text) < 128 THEN <<Head(text)>>
          ELSE <<192 + (Head(text) \div 64), 128 + (Head(text) % 64)>>)
         \o AsBytes(Tail(text))

\* The bytes are UTF-8 of code points below 0x800
RECURSIVE IsUtf8(_)
IsUtf8(bs) ==
    IF bs = <<>> THEN TRUE
    ELSE IF bs[1] < 128 THEN IsUtf8(Tail(bs))
    ELSE IF bs[1] >= 194 /\ bs[1] <= 223 /\ Len(bs) >= 2 /\ bs[2] >= 128 /\ bs[2] <= 191
    THEN IsUtf8(Drop(bs, 2))
    ELSE FALSE

RECURSIVE Utf8Text(_)
Utf8Text(bs) ==
    IF bs = <<>> THEN <<>>
    ELSE IF bs[1] < 128 THEN <<bs[1]>> \o Utf8Text(Tail(bs))
    ELSE <<(bs[1] - 192) * 64 + (bs[2] - 128)>> \o Utf8Text(Drop(bs, 2))

\* String::from_utf8
FromUtf8(bs) == IF IsUtf8(bs) THEN Some(Utf8Text(bs)) ELSE None

\* Result<String, ErrorReport>
NotCalled == [tag |-> "None", error |-> "", val |-> <<>>]
OkString(str) == [tag |-> "Ok", error |-> "", val |-> str]
ErrReport(kind) == [tag |-> "Err", error |-> kind, val |-> <<>>]

\* RsaKeys::pub_encrypt, the library drawing padding string ps
pub_encrypt(self, text, ps) ==
    LET buf == Zeros(Size(self.public))
        r == public_encrypt(self.public, AsBytes(text), ps, buf)
    IN  IF r.tag = "Err" THEN ErrReport("OpenSslErrorStack")
        ELSE OkString(Base64UrlEncode(SubSeq(r.buf, 1, r.bytes)))

\* RsaKeys::priv_encrypt
priv_encrypt(self, text) ==
    LET buf == Zeros(Size(self.private))
        r == private_encrypt(self.private, AsBytes(text), buf)
    IN  IF r.tag = "Err" THEN ErrReport("OpenSslErrorStack")
        ELSE OkString(Base64UrlEncode(SubSeq(r.buf, 1, r.bytes)))

\* priv_decrypt handing back the whole buffer instead of buf[0..bytes]
priv_decrypt_whole_buf(self, str) ==
    LET buf == Zeros(Size(self.private))
        raw == Base64UrlDecode(str)
    IN  IF raw = None THEN ErrReport("DataEncodingDecode")
        ELSE LET r == private_decrypt(self.private, raw[1], buf)
             IN  IF r.tag = "Err" THEN ErrReport("OpenSslErrorStack")
                 ELSE IF FromUtf8(r.buf) = None THEN ErrReport("FromUtf8")
                 ELSE OkString(FromUtf8(r.buf)[1])

\* RsaKeys::priv_decrypt
priv_decrypt(self, str) ==
    LET buf == Zeros(Size(self.private))
        raw == Base64UrlDecode(str)
    IN  IF raw = None THEN ErrReport("DataEncodingDecode")
        ELSE LET r == private_decrypt(self.private, raw[1], buf)
             IN  IF r.tag = "Err" THEN ErrReport("OpenSslErrorStack")
                 ELSE IF FromUtf8(SubSeq(r.buf, 1, r.bytes)) = None THEN ErrReport("FromUtf8")
                 ELSE OkString(FromUtf8(SubSeq(r.buf, 1, r.bytes))[1])

\* RsaKeys::pub_decrypt
pub_decrypt(self, str) ==
    LET buf == Zeros(Size(self.public))
        raw == Base64UrlDecode(str)
    IN  IF raw = None THEN ErrReport("DataEncodingDecode")
        ELSE LET r == public_decrypt(self.public, raw[1], buf)
             IN  IF r.tag = "Err" THEN ErrReport("OpenSslErrorStack")
                 ELSE IF FromUtf8(SubSeq(r.buf, 1, r.bytes)) = None THEN ErrReport("FromUtf8")
                 ELSE OkString(FromUtf8(SubSeq(r.buf, 1, r.bytes))[1])

\* Code points texts are written with: ASCII, and two that take two bytes
TextChars == (0..127) \cup {233, 1024}

\* Longest text, in characters
MaxTextLen == 1

\* Padding bytes the library may draw for a type 2 block: any but zero
PaddingBytes == 1..255

RsaIdle ==
    /\ keys = [private |-> PrivateKeyOf(KeyPairOne), public |-> PublicKeyOf(KeyPairOne)]
    /\ data = <<>>
    /\ encrypted = NotCalled
    /\ decrypted = NotCalled
    /\ ops = <<>>

\* RsaKeys::init on the PEM files of a private and a public key
RsaInit ==
    /\ \E priv \in {KeyPairOne, KeyPairTwo}, pub \in {KeyPairOne, KeyPairTwo} :
         keys = [private |-> PrivateKeyOf(priv), public |-> PublicKeyOf(pub)]
    /\ data \in SeqsUpTo(TextChars, MaxTextLen)
    /\ encrypted = NotCalled
    /\ decrypted = NotCalled
    /\ ops = <<>>

PubEncrypt ==
    /\ ops = <<>>
    /\ \E ps \in [1..(IF Len(AsBytes(data)) > Size(keys.public) - PaddingFrame
                      THEN 0
                      ELSE PaddingLen(Size(keys.public), AsBytes(data)))
                  -> PaddingBytes] :
         encrypted' = pub_encrypt(keys, data, ps)
    /\ ops' = <<"pub_encrypt">>
    /\ UNCHANGED <<keys, data, decrypted>>
    /\ UNCHANGED <<mailerVars, renderVars, envarsVars>>

PrivEncrypt ==
    /\ ops = <<>>
    /\ encrypted' = priv_encrypt(keys, data)
    /\ ops' = <<"priv_encrypt">>
    /\ UNCHANGED <<keys, data, decrypted>>
    /\ UNCHANGED <<mailerVars, renderVars, envarsVars>>

PrivDecrypt ==
    /\ Len(ops) = 1
    /\ encrypted.tag = "Ok"
    /\ decrypted' = priv_decrypt(keys, encrypted.val)
    /\ ops' = Append(ops, "priv_decrypt")
    /\ UNCHANGED <<keys, data, encrypted>>
    /\ UNCHANGED <<mailerVars, renderVars, envarsVars>>

PubDecrypt ==
    /\ Len(ops) = 1
    /\ encrypted.tag = "Ok"
    /\ decrypted' = pub_decrypt(keys, encrypted.val)
    /\ ops' = Append(ops, "pub_decrypt")
    /\ UNCHANGED <<keys, data, encrypted>>
    /\ UNCHANGED <<mailerVars, renderVars, envarsVars>>

\* The Mailer at rest while another component is exercised
MailerIdle ==
    /\ config = [default_language |-> En,
                 languages |-> ConfigLanguages,
                 template_dir_path |-> TemplateDir,
                 template_name_format |-> LangToken]
    /\ fs = EmptyMap
    /\ args = [to_addrs |-> <<>>, cc_addrs |-> None, subject |-> <<>>,
               message |-> <<>>, language |-> None, attachments |-> None]
    /\ pc = "idle"
    /\ part = <<>>
    /\ idx = 1
    /\ reads = <<>>
    /\ mail = NoMail
    /\ transportBuilt = FALSE
    /\ submissions = 0
    /\ res = NoResponse
    /\ result = NoResult

\* html_body's rendering of one template with one message
Render ==
    /\ body = NotRendered
    /\ body' = Some(RenderBody(template_text, message))
    /\ UNCHANGED <<template_text, message>>
    /\ UNCHANGED <<mailerVars, envarsVars, rsaVars>>

Init == MailerInit /\ RenderIdle /\ EnvarsIdle /\ RsaIdle

Next ==
    \/ SendBegin
    \/ HtmlBody
    \/ AttachementPart
    \/ BuilderMultipart
    \/ TransportBuild
    \/ TransportSend
    \/ Evaluate
    \/ Return

Spec == Init /\ [][Next]_vars

InitRender == MailerIdle /\ RenderInit /\ EnvarsIdle /\ RsaIdle

NextRender == Render

SpecRender == InitRender /\ [][NextRender]_vars

InitEnvars == MailerIdle /\ RenderIdle /\ EnvarsInit /\ RsaIdle

NextEnvars == AppConfigInit

SpecEnvars == InitEnvars /\ [][NextEnvars]_vars

InitRsa == MailerIdle /\ RenderIdle /\ EnvarsIdle /\ RsaInit

NextRsa ==
    \/ PubEncrypt
    \/ PrivEncrypt
    \/ PrivDecrypt
    \/ PubDecrypt

SpecRsa == InitRsa /\ [][NextRsa]_vars

(***************************************************************************)
(* Properties of Mailer::send                                              *)
(***************************************************************************)

\* The call has got past the template read
TemplateWasRead == pc \notin {"idle", "html_body"}

\* The language the caller's arguments and the configuration name
WantedLang == IF args.language = None THEN config.default_language ELSE args.language[1]

\* The file that language names
WantedPath ==
    PathJoin(config.template_dir_path,
             Replace(config.template_name_format, LangToken, WantedLang))

\* C1: once the message was submitted and the server replied, send returns Ok
\* exactly when the reply's severity is PositiveCompletion, whatever its text;
\* any other severity gives Err(MailSentResponse).
C1_SeverityDecides ==
    (pc = "done" /\ res # NoResponse) =>
        /\ res.severity = "PositiveCompletion" => result = Ok
        /\ res.severity # "PositiveCompletion" =>
               result.tag = "Err" /\ result.error = "MailSentResponse"

C1_Witness ==
    /\ pc = "done"
    /\ res.severity = "PositiveCompletion"
    /\ Len(res.message) = 2
    /\ result = Ok

\* Where line i of a response starts in the concatenation, less one
RECURSIVE LineOffset(_, _)
LineOffset(lines, i) ==
    IF i <= 1 THEN 0 ELSE LineOffset(lines, i - 1) + Len(lines[i - 1]) + 1

\* C2: the msg of a MailSentResponse error is every line of the response in
\* order, each followed by one newline: n lines give exactly n newlines, and no
\* line gives the empty string.
C2_MessageIsLinesWithNewlines ==
    (pc = "done" /\ result.error = "MailSentResponse") =>
        LET lines == res.message
            n == Len(lines)
            msg == result.msg
        IN  /\ Len(msg) = LineOffset(lines, n + 1)
            /\ \A i \in 1..n :
                 /\ SubSeq(msg, LineOffset(lines, i) + 1,
                           LineOffset(lines, i) + Len(lines[i])) = lines[i]
                 /\ msg[LineOffset(lines, i) + Len(lines[i]) + 1] = "\n"
            /\ Cardinality({ k \in 1..Len(msg) : msg[k] = "\n" }) = n
            /\ n = 0 => msg = <<>>

C2_Witness ==
    /\ pc = "done"
    /\ result.error = "MailSentResponse"
    /\ Len(res.message) = 2
    /\ res.message[1] # res.message[2]

\* C3: the template read is template_dir_path joined with template_name_format
\* with "{lang}" replaced by the caller's language, or by default_language when
\* the caller gives none; with none given it is not the template of any other
\* entry of config.languages.
C3_LanguageFallback ==
    TemplateWasRead =>
        /\ reads[1] = PathJoin(config.template_dir_path,
                               Replace(config.template_name_format, LangToken,
                                       IF args.language = None
                                       THEN config.default_language
                                       ELSE args.language[1]))
        /\ args.language = None =>
             \A i \in 1..Len(config.languages) :
                 config.languages[i] # config.default_language =>
                     reads[1] # PathJoin(config.template_dir_path,
                                         Replace(config.template_name_format,
                                                 LangToken, config.languages[i]))
        /\ part # <<>> => part[1].content = Replace(fs[reads[1]], ContentsToken, args.message)

C3_Witness ==
    /\ pc = "attachments"
    /\ args.language = None
    /\ config.default_language = Ro
    /\ part # <<>>

\* C4: when the template of the resolved language is absent, send returns
\* Err(Io), has read no other template, and has built no message, no transport
\* and submitted nothing.
C4_MissingTemplateIsIo ==
    (TemplateWasRead /\ WantedPath \notin DOMAIN fs) =>
        /\ pc = "done"
        /\ result = Err("Io", <<>>)
        /\ reads = <<WantedPath>>
        /\ part = <<>>
        /\ mail = NoMail
        /\ ~transportBuilt
        /\ submissions = 0
        /\ res = NoResponse

C4_Witness ==
    /\ pc = "done"
    /\ args.language = Some(Ro)
    /\ config.default_language = En
    /\ WantedPath \notin DOMAIN fs
    /\ TemplatePath(None, En, config.template_dir_path, config.template_name_format)
           \in DOMAIN fs

\* The attachments of the call
Attachments == AttachmentList(args.attachments)

\* The places of the attachments whose MIME type is malformed
Malformed == { i \in 1..Len(Attachments) : ~MimeParses(Attachments[i].mime) }

FirstMalformed == CHOOSE i \in Malformed : \A j \in Malformed : i <= j

\* C5 as stated: a call given an attachment with a malformed MIME type returns
\* MailHeaderContentType, with no transport built and nothing submitted.
C5_AsStated ==
    (pc = "done" /\ Malformed # {}) =>
        /\ result.tag = "Err" /\ result.error = "MailHeaderContentType"
        /\ ~transportBuilt
        /\ submissions = 0

\* C5 amended: a call given an attachment with a malformed MIME type fails with
\* no transport built and nothing submitted; the error is MailHeaderContentType
\* when the template and every attachment file up to and including the first
\* malformed one can be read, and Io when one of them cannot.
C5_MalformedMimeFailsBeforeNetwork ==
    (pc = "done" /\ Malformed # {}) =>
        /\ result.tag = "Err"
        /\ ~transportBuilt
        /\ submissions = 0
        /\ mail = NoMail
        /\ res = NoResponse
        /\ IF /\ WantedPath \in DOMAIN fs
              /\ \A j \in 1..FirstMalformed : Attachments[j].path \in DOMAIN fs
           THEN result.error = "MailHeaderContentType"
           ELSE result.error = "Io"

C5_Witness ==
    /\ pc = "done"
    /\ Attachments = <<AttA, AttC>>
    /\ result.error = "MailHeaderContentType"
    /\ reads[Len(reads)] = AttC.path

\* C6: the multipart body of the built message is the HTML body followed by one
\* part per attachment, in the order the attachments were given.
C6_AttachmentOrder ==
    /\ mail # NoMail =>
        LET parts == mail[1].multipart
        IN  /\ Len(parts) = 1 + Len(Attachments)
            /\ parts[1].kind = "html"
            /\ \A i \in 1..Len(Attachments) :
                 /\ parts[i + 1].kind = "attachment"
                 /\ parts[i + 1].name = Attachments[i].name
                 /\ parts[i + 1].mime = Attachments[i].mime
                 /\ parts[i + 1].content = fs[Attachments[i].path]
    /\ (pc = "attachments") =>
        /\ Len(part) = idx
        /\ part[1].kind = "html"
        /\ \A i \in 1..(idx - 1) : part[i + 1].name = Attachments[i].name

C6_Witness ==
    /\ mail # NoMail
    /\ Attachments = <<AttB, AttA>>

\* Composing, Transporting, Evaluating, Success, Failed; Idle between calls
PhaseOf(p, r) ==
    CASE p \in {"html_body", "attachments"} -> "Composing"
      [] p \in {"transport", "send"} -> "Transporting"
      [] p = "evaluate" -> "Evaluating"
      [] p = "done" /\ r.tag = "Ok" -> "Success"
      [] p = "done" /\ r.tag # "Ok" -> "Failed"
      [] OTHER -> "Idle"

PhaseStep ==
    LET a == PhaseOf(pc, result)
        b == PhaseOf(pc', result')
    IN  /\ a = "Idle" => b = "Composing"
        /\ a = "Composing" => b \in {"Composing", "Transporting", "Failed"}
        /\ a = "Transporting" => b \in {"Transporting", "Evaluating", "Failed"}
        /\ a = "Evaluating" => b \in {"Success", "Failed"}
        /\ a \in {"Success", "Failed"} => b = "Idle"
        \* a failure ends the call with one error; nothing is returned before the end
        /\ b = "Failed" => result.tag = "None" /\ result'.tag = "Err"
        /\ b \in {"Composing", "Transporting", "Evaluating"} => result'.tag = "None"
        \* one submission at most
        /\ submissions' <= 1
        /\ b # "Idle" => submissions' >= submissions
        /\ a = "Composing" => submissions' = 0 /\ ~transportBuilt'
        \* the transport is built once the whole message is composed
        /\ (transportBuilt' /\ ~transportBuilt) =>
               /\ mail # NoMail
               /\ Len(mail[1].multipart) = 1 + Len(Attachments)
        \* Success comes from Evaluating, after one submission answered positively
        /\ b = "Success" =>
               /\ a = "Evaluating"
               /\ submissions' = 1
               /\ transportBuilt'
               /\ res'.severity = "PositiveCompletion"
        /\ b = "Evaluating" => submissions' = 1 /\ res' # NoResponse

\* C8: a call moves Composing -> Transporting -> Evaluating -> {Success, Failed}
\* in that order only; a failure ends it at once with one error; the message is
\* submitted at most once; the transport is built after the message is composed;
\* Success is reached only from Evaluating, after a positive-completion reply.
C8_PhaseOrder == [][PhaseStep]_vars

C8_Witness ==
    /\ pc = "done"
    /\ result = Ok
    /\ submissions = 1
    /\ transportBuilt
    /\ Len(Attachments) = 2

(***************************************************************************)
(* Properties of the template rendering                                    *)
(***************************************************************************)

\* Where the token occurs in the template
Occurrences == { i \in 1..Len(template_text) : MatchesAt(template_text, ContentsToken, i) }

\* How much shorter the text gets for each token replaced by "hello"
Shrink == Len(ContentsToken) - Len(Hello)

\* Where index i of the template lands in the body
Landing(i) == i - Shrink * Cardinality({ p \in Occurrences : p < i })

\* C7: a template rendered with the message "hello" no longer contains the
\* token; if it did contain it, the body contains "hello"; every occurrence of
\* the token has become "hello" and every other character is kept, in place.
C7_RenderRoundTrip ==
    (body # NotRendered /\ message = Hello) =>
        LET b == body[1]
        IN  /\ ~Contains(b, ContentsToken)
            /\ Contains(template_text, ContentsToken) => Contains(b, Hello)
            /\ Len(b) = Len(template_text) - Shrink * Cardinality(Occurrences)
            /\ \A p \in Occurrences :
                   SubSeq(b, Landing(p), Landing(p) + Len(Hello) - 1) = Hello
            /\ \A i \in 1..Len(template_text) :
                   (\A p \in Occurrences : i < p \/ i >= p + Len(ContentsToken))
                       => b[Landing(i)] = template_text[i]

C7_Witness ==
    /\ body # NotRendered
    /\ message = Hello
    /\ Cardinality(Occurrences) = 2
    /\ Len(template_text) > 2 * Len(ContentsToken)
    /\ Contains(body[1], Hello)

(***************************************************************************)
(* Properties of AppConfig::init                                           *)
(***************************************************************************)

\* A comment line: its trimmed text starts with the comment character
IsComment(line) == StartsWith(Trim(line), COMMENT_START)

\* The trimmed non-comment lines that contain the delimiter, in file order
EntryLines ==
    SelectSeq([i \in 1..Len(Lines(file_text)) |-> Trim(Lines(file_text)[i])],
              LAMBDA l : ~StartsWith(l, COMMENT_START) /\ (\E i \in 1..Len(l) : l[i] = Delimiter))

KeyOf(l) == SubSeq(l, 1, (CHOOSE k \in 1..Len(l) :
                              l[k] = Delimiter /\ \A j \in 1..(k - 1) : l[j] # Delimiter) - 1)

ValueOf(l) == Drop(l, Len(KeyOf(l)) + 1)

\* C10: no comment line contributes an entry, even one holding the delimiter;
\* the mapping holds exactly the entries of the non-comment lines that contain
\* the delimiter, a later line overriding an earlier one with the same key.
C10_CommentsIgnored ==
    values # NotLoaded =>
        LET map == values[1]
        IN  /\ \A i \in 1..Len(Lines(file_text)) :
                 LET l == Trim(Lines(file_text)[i])
                 IN  (IsComment(l) /\ (\E j \in 1..Len(l) : l[j] = Delimiter))
                         => KeyOf(l) \notin DOMAIN map
            /\ DOMAIN map = { KeyOf(EntryLines[i]) : i \in 1..Len(EntryLines) }
            /\ \A i \in 1..Len(EntryLines) :
                 (\A j \in (i + 1)..Len(EntryLines) : KeyOf(EntryLines[j]) # KeyOf(EntryLines[i]))
                     => map[KeyOf(EntryLines[i])] = ValueOf(EntryLines[i])

(***************************************************************************)
(* Properties of RsaKeys                                                   *)
(***************************************************************************)

\* The private and the public key are the two halves of one pair
MatchingPair == keys.private.n = keys.public.n /\ keys.private.e = keys.public.e

\* The text fits one block of the key under PKCS1 padding
Fits == Len(AsBytes(data)) <= ByteLen(keys.public.n) - PaddingFrame

\* URL-safe unpadded base64: letters, digits, "-" and "_", no "="
UrlSafeUnpadded(str) ==
    \A i \in 1..Len(str) :
        str[i] \in {Base64UrlAlphabet[j] : j \in 1..64} /\ str[i] \notin {"=", "+", "/"}

\* C9: with a matching key pair and a text that fits the key, pub_encrypt then
\* priv_decrypt, and priv_encrypt then pub_decrypt, both return Ok(text); the
\* ciphertext in between is URL-safe unpadded base64 of one block of the key.
C9_RsaRoundTrip ==
    (MatchingPair /\ Fits) =>
        /\ ops # <<>> =>
             /\ encrypted.tag = "Ok"
             /\ UrlSafeUnpadded(encrypted.val)
             /\ (3 * Len(encrypted.val)) \div 4 = ByteLen(keys.public.n)
        /\ ops = <<"pub_encrypt", "priv_decrypt">> => decrypted = OkString(data)
        /\ ops = <<"priv_encrypt", "pub_decrypt">> => decrypted = OkString(data)

C9_Witness ==
    /\ MatchingPair
    /\ ops = <<"pub_encrypt", "priv_decrypt">>
    /\ Len(data) = 1
    /\ decrypted = OkString(data)

====
